---- MODULE Spec2Model ----
(***************************************************************************)
(* A model of trunk/ragent.py: the machine inventory (class Machine) and   *)
(* the log classification / parsing pipeline (class LogParser).            *)
(*                                                                         *)
(* Text is modelled as a sequence of tokens.  A token is either a marker   *)
(* the program searches for ("product:", "*-cpu", "Release Date:" ...), a  *)
(* single character (digits, "/", "=", " ") or an opaque word.  No marker  *)
(* of class Machine is a substring of another one, so the Python test      *)
(* `marker in line` is the presence of the marker token in the line, and   *)
(* line.split(marker) splits the token sequence at that token.  The        *)
(* patterns of class LogParser that end in ':' also hold their stem and    *)
(* ":" as substrings; Has and ExpandColons account for that.               *)
(***************************************************************************)
EXTENDS Integers, Sequences, FiniteSets, TLC

\* ------------------------------------------------------------------ bounds
\* Total number of output lines over all inventory commands of one machine.
MaxTotalLines == 3
\* Number of RunInventory calls made on one Machine object.
MaxRuns == 2
\* Number of lines of a log file.
MaxLogLen == 3
\* Number of lines of a PyreRing report below its title line.
MaxReportLen == 4
\* Number of ProcessLog calls made on one LogParser object.
MaxCalls == 2
\* The lines of a sudoers file before it is configured.
MaxSudoLines == 2
\* The _SudoConf calls made on one sudoers file.
MaxSudoCalls == 3
\* The entries of the host list of a testbed.
MaxHosts == 3
\* The AutoRun calls made on one TestBed object.
MaxAutoRuns == 2

\* ------------------------------------------------------------- Python values
\* A value held by a dictionary slot: None, a string (token sequence), an int.
None == [t |-> "none", s |-> <<>>, n |-> 0]
PyStr(s) == [t |-> "str", s |-> s, n |-> 0]
PyInt(n) == [t |-> "int", s |-> <<>>, n |-> n]

\* Python truth value: None, '' and 0 are false.
Truthy(v) == CASE v.t = "none" -> FALSE
               [] v.t = "str" -> v.s # <<>>
               [] v.t = "int" -> v.n # 0

SP == " "
TAB == "\t"
Whitespace == {SP, TAB}

\* `tok in line`
Contains(line, tok) == \E i \in 1..Len(line) : line[i] = tok

\* Positions of tok in line.
Occurrences(line, tok) == {i \in 1..Len(line) : line[i] = tok}

Min(S) == CHOOSE x \in S : \A y \in S : x <= y

\* s.split(sep): the list of fields of s between the occurrences of sep.
RECURSIVE Split(_, _)
Split(s, sep) ==
  IF ~Contains(s, sep) THEN <<s>>
  ELSE LET a == Min(Occurrences(s, sep))
       IN <<SubSeq(s, 1, a - 1)>> \o Split(SubSeq(s, a + 1, Len(s)), sep)

\* s.lstrip()
RECURSIVE LStrip(_)
LStrip(s) == IF s # <<>> /\ Head(s) \in Whitespace THEN LStrip(Tail(s)) ELSE s

\* s.strip()
RECURSIVE RStrip(_)
RStrip(s) == IF s # <<>> /\ s[Len(s)] \in Whitespace
             THEN RStrip(SubSeq(s, 1, Len(s) - 1)) ELSE s

Strip(s) == RStrip(LStrip(s))

\* --------------------------------------------------- Machine.__init__ tables
system == [command |-> "sudo lshw -C system",
           form |-> "description:",
           model |-> "product:",
           serial |-> "serial:",
           sysconfig |-> "capabilities:",
           vendor |-> "vendor:"]

processor == [command |-> "sudo lshw -C cpu",
              cpu_bits |-> "width:",
              cpu_capability |-> "capabilities:",
              cpu_capacity |-> "capacity:",
              cpu_model |-> "product:",
              cpu_speed |-> "size:",
              cpu_vendor |-> "vendor:"]

bios == [command |-> "sudo dmidecode -t bios",
         bios_date |-> "Release Date:",
         bios_vendor |-> "Vendor:",
         bios_version |-> "Version"]

memory == [command |-> "lshw -C memory",
           mem_size |-> "size:"]

video == [command |-> "lshw -C video",
          video_memory |-> "size:",
          video_model |-> "product:",
          video_vendor |-> "vendor:"]

nic == [command |-> "sudo lshw -C network",
        nic_config |-> "configuration:",
        nic_mac |-> "serial:",
        nic_model |-> "product:",
        nic_speed |-> "capacity:",
        nic_vendor |-> "vendor:",
        nic_width |-> "width:"]

storage == [command |-> "lshw -C storage",
            dsk_config |-> "configuration:",
            dsk_model |-> "product:",
            dsk_speed |-> "clock:",
            dsk_type |-> "description:",
            dsk_vendor |-> "vendor:",
            dsk_width |-> "width:"]

\* The scan order of RunInventory.
components == <<bios, memory, processor, nic, storage, system, video>>

\* The fact keys of a component ('command' is not one).
ItemKeys(component) == DOMAIN component \ {"command"}

\* The canonical fact schema, in the order the summary table is written.
SummaryKeys ==
  <<"arch", "bios_date", "bios_vendor", "bios_version", "cpu_bits",
    "cpu_capability", "cpu_capacity", "cpu_model", "cpu_qty", "cpu_speed",
    "cpu_vendor", "dsk_config", "dsk_model", "dsk_speed", "dsk_type",
    "dsk_vendor", "dsk_width", "form", "kernel", "mem_size", "model",
    "nic_config", "nic_mac", "nic_model", "nic_speed", "nic_vendor",
    "nic_width", "node", "os_desc", "os_distrib", "os_rel", "os_rev",
    "serial", "sysconfig", "vendor", "video_memory", "video_model",
    "video_vendor">>

KeySet == {SummaryKeys[i] : i \in 1..Len(SummaryKeys)}

\* self.summary as constructed: every key None, cpu_qty 0.
InitSummary == [k \in KeySet |-> IF k = "cpu_qty" THEN PyInt(0) ELSE None]

cpu_marker == "*-cpu"
lspci_cmd == "lspci | grep VGA | cut -d\" \" -f1 | xargs lspci -v -s"
prefetchable == " prefetchable"

Unknown == PyStr(<<"unknown">>)

\* ------------------------------------------------------ Machine.GetInventory
\* The assignments one output line causes: every key of the component whose
\* marker is in the line and whose slot is still false takes the text after
\* the marker, left-stripped.
ScanLine(sum, component, line) ==
  [k \in KeySet |->
     IF k \in ItemKeys(component) /\ Contains(line, component[k])
        /\ ~Truthy(sum[k])
     THEN PyStr(LStrip(Split(line, component[k])[2]))
     ELSE sum[k]]

RECURSIVE ScanLines(_, _, _)
ScanLines(sum, component, lines) ==
  IF lines = <<>> THEN sum
  ELSE ScanLines(ScanLine(sum, component, Head(lines)), component, Tail(lines))

\* cpu_count: the number of lines that contain the cpu marker.
CpuCount(lines) == Cardinality({i \in 1..Len(lines) : Contains(lines[i], cpu_marker)})

\* The summary after GetInventory(component) when the command printed lines.
GetInventory(sum, component, lines) ==
  LET scanned == ScanLines(sum, component, lines)
      cpu_count == CpuCount(lines)
  IN IF cpu_count > 0
     THEN [scanned EXCEPT !["cpu_qty"] = PyInt(cpu_count)]
     ELSE scanned

\* ------------------------------------------- RunInventory: the lspci fallback
\* The loop over the lspci lines.  memsize[1] raises IndexError on a
\* prefetchable line without '='; the assignments of earlier lines stay.
RECURSIVE VideoMemoryScan(_, _)
VideoMemoryScan(sum, lines) ==
  IF lines = <<>> THEN [summary |-> sum, err |-> "none"]
  ELSE IF ~Contains(Head(lines), prefetchable)
       THEN VideoMemoryScan(sum, Tail(lines))
       ELSE LET memsize == Split(Head(lines), "=")
            IN IF Len(memsize) < 2
               THEN [summary |-> sum, err |-> "IndexError"]
               ELSE VideoMemoryScan(
                      [sum EXCEPT !["video_memory"] =
                         PyStr(SubSeq(memsize[2], 1, Len(memsize[2]) - 1))],
                      Tail(lines))

\* ------------------------------------------------ RunInventory: the post-pass
\* The post-pass left out: every key keeps the value the scans gave it.
FillUnknownSkipped(sum) == sum

FillUnknown(sum) == [k \in KeySet |-> IF Truthy(sum[k]) THEN sum[k] ELSE Unknown]

\* ----------------------------------------------- RunInventory: the bios date
DigitSeq == <<"0", "1", "2", "3", "4", "5", "6", "7", "8", "9">>
Digits == {DigitSeq[i] : i \in 1..10}
DigitValue(c) == (CHOOSE i \in 1..10 : DigitSeq[i] = c) - 1

RECURSIVE NumberValue(_)
NumberValue(s) ==
  IF s = <<>> THEN 0
  ELSE 10 * NumberValue(SubSeq(s, 1, Len(s) - 1)) + DigitValue(s[Len(s)])

AllDigits(s) == \A i \in 1..Len(s) : s[i] \in Digits

\* %m : 1[0-2] | 0[1-9] | [1-9]
IsMonthText(s) ==
  /\ AllDigits(s)
  /\ \/ Len(s) = 2 /\ s[1] = "1" /\ s[2] \in {"0", "1", "2"}
     \/ Len(s) = 2 /\ s[1] = "0" /\ s[2] # "0"
     \/ Len(s) = 1 /\ s[1] # "0"

\* %d : 3[0-1] | [1-2]\d | 0[1-9] | [1-9] | ' '[1-9]
IsDayText(s) ==
  \/ AllDigits(s) /\ Len(s) = 2 /\ s[1] = "3" /\ s[2] \in {"0", "1"}
  \/ AllDigits(s) /\ Len(s) = 2 /\ s[1] \in {"1", "2"}
  \/ AllDigits(s) /\ Len(s) = 2 /\ s[1] = "0" /\ s[2] # "0"
  \/ AllDigits(s) /\ Len(s) = 1 /\ s[1] # "0"
  \/ Len(s) = 2 /\ s[1] = SP /\ s[2] \in Digits \ {"0"}

\* %Y : \d\d\d\d
IsYearText(s) == AllDigits(s) /\ Len(s) = 4

IsLeap(y) == (y % 4 = 0 /\ y % 100 # 0) \/ y % 400 = 0

DaysInMonth(y, m) ==
  IF m = 2 THEN (IF IsLeap(y) THEN 29 ELSE 28)
  ELSE IF m \in {4, 6, 9, 11} THEN 30 ELSE 31

\* time.strptime(text, "%m/%d/%Y"): the date, or ValueError.
strptime(text) ==
  LET f == Split(text, "/")
  IN IF Len(f) = 3 /\ IsMonthText(f[1]) /\ IsDayText(f[2]) /\ IsYearText(f[3])
     THEN LET y == NumberValue(f[3])
              m == NumberValue(f[1])
              d == NumberValue(LStrip(f[2]))
          IN IF y >= 1 /\ d <= DaysInMonth(y, m)
             THEN [ok |-> TRUE, year |-> y, month |-> m, day |-> d]
             ELSE [ok |-> FALSE, year |-> 0, month |-> 0, day |-> 0]
     ELSE [ok |-> FALSE, year |-> 0, month |-> 0, day |-> 0]

Digits2(n) == <<DigitSeq[(n \div 10) + 1], DigitSeq[(n % 10) + 1]>>
Digits4(n) == Digits2(n \div 100) \o Digits2(n % 100)

\* strftime with the format "%Y/%d/%m".
strftimeDayFirst(date) ==
  Digits4(date.year) \o <<"/">> \o Digits2(date.day) \o <<"/">> \o Digits2(date.month)

\* datetime.strftime(newdate, "%Y/%m/%d")
strftime(date) ==
  Digits4(date.year) \o <<"/">> \o Digits2(date.month) \o <<"/">> \o Digits2(date.day)

\* ------------------------------------------------------- Machine.ReadLSBRel
\* value.strip('"')
RECURSIVE StripQuotes(_)
StripQuotes(s) ==
  IF s # <<>> /\ Head(s) = "\"" THEN StripQuotes(Tail(s))
  ELSE IF s # <<>> /\ s[Len(s)] = "\"" THEN StripQuotes(SubSeq(s, 1, Len(s) - 1))
  ELSE s

\* The value lsbdict[key] built from the lines of /etc/lsb-release (the last
\* line with that key wins).
RECURSIVE LsbLookup(_, _, _)
LsbLookup(lines, key, found) ==
  IF lines = <<>> THEN found
  ELSE LET f == Split(Strip(Head(lines)), "=")
       IN LsbLookup(Tail(lines), key,
                    IF f[1] = <<key>> THEN PyStr(StripQuotes(f[2])) ELSE found)

ReadLSBRelSummary(sum, lines) ==
  [sum EXCEPT !["os_rel"] = LsbLookup(lines, "DISTRIB_RELEASE", None),
              !["os_desc"] = LsbLookup(lines, "DISTRIB_DESCRIPTION", None),
              !["os_distrib"] = LsbLookup(lines, "DISTRIB_ID", None),
              !["os_rev"] = LsbLookup(lines, "DISTRIB_CODENAME", None)]

\* ------------------------------------------------------------ the environment
\* /etc/lsb-release of the machine.
LsbRelease ==
  << <<"DISTRIB_ID", "=", "Ubuntu">>,
     <<"DISTRIB_RELEASE", "=", "8.04">>,
     <<"DISTRIB_CODENAME", "=", "hardy">>,
     <<"DISTRIB_DESCRIPTION", "=", "\"", "Ubuntu 8.04.1", "\"">> >>

\* What platform.uname() can return: (system, node, release, version, machine,
\* processor); an entry that cannot be determined is ''.
UnameOutputs ==
  { <<"Linux", <<"host1">>, <<"2.6.24">>, <<"#1 SMP">>, <<"x86_64">>, <<>> >>,
    <<"Linux", <<"host1">>, <<"2.6.24">>, <<"#1 SMP">>, <<>>, <<>> >> }

\* The commands RunInventory executes, in the order it executes them.
Commands == [i \in 1..Len(components) |-> components[i].command] \o <<lspci_cmd>>

CommandIndex(cmd) == CHOOSE i \in 1..Len(Commands) : Commands[i] = cmd

\* The lines each command may print.
OutputLines ==
  << \* sudo dmidecode -t bios
     { <<TAB, "Release Date:", SP, "1", "2", "/", "3", "1", "/", "2", "0", "0", "9">>,
       <<TAB, "Release Date:", SP, "2", "/", "2", "9", "/", "2", "0", "0", "8">>,
       <<TAB, "Release Date:", SP, "0", "2", "/", "3", "0", "/", "2", "0", "0", "9">>,
       <<TAB, "Vendor:", SP, "Dell">>,
       <<TAB, "Version", ":", SP, "A05">> },
     \* lshw -C memory
     { <<"size:", SP, "4GiB">>, <<SP, cpu_marker>> },
     \* sudo lshw -C cpu
     { <<SP, cpu_marker, ":0">>,
       <<"product:", SP, "Xeon">>,
       <<"product:", SP, "Opteron">>,
       <<"product:">> },
     \* sudo lshw -C network
     { <<"product:", SP, "e1000">>, <<SP, cpu_marker>> },
     \* lshw -C storage
     { <<"vendor:", SP, "Intel">> },
     \* sudo lshw -C system
     { <<"product:", SP, "OptiPlex">> },
     \* lshw -C video
     { <<"size:", SP, "256MiB">> },
     \* lspci
     { <<"Memory at", prefetchable, ")", SP, "[size", "=", "256M", "]">>,
       <<"Memory at", prefetchable, ")", SP, "[disabled]">> } >>

SeqUpTo(S, n) == UNION {[1..k -> S] : k \in 0..n}

\* Every assignment of outputs to the commands i..Len(Commands) that prints
\* at most budget lines in total.
RECURSIVE Outputs(_, _)
Outputs(i, budget) ==
  IF i > Len(Commands) THEN {<<>>}
  ELSE UNION { { <<o>> \o rest : rest \in Outputs(i + 1, budget - Len(o)) } :
               o \in SeqUpTo(OutputLines[i], budget) }

VARIABLES
  summary, fieldlist, valuelist,  \* the attributes of the Machine object
  mpc,       \* where the Machine object is: idle, inside RunInventory, done, raised
  idx,       \* the component the loop of RunInventory is at
  merr,      \* the exception that ended the last RunInventory
  runs,      \* the number of RunInventory calls started
  first,     \* summary, fieldlist, valuelist as the first completed run left them
  cmdout,    \* what each command prints on this machine
  uname,     \* what platform.uname() returns on this machine
  lsbread,   \* ReadLSBRel has been called on the object
  rawdate,   \* the bios_date text handed to strptime in the current run
  \* ---- the LogParser object and the ProcessLog call in progress
  logtype, ParseLog, tests, results, suites, attrs,
  mach,      \* the local dictionary mach of ProcessLog
  log,       \* the lines ProcessLog read from the log file
  lpc,       \* where ProcessLog is: new, classify, parse, assign, done, raised
  lerr,      \* the exception that ended ProcessLog
  order,     \* the order in which this interpreter walks SUITE_CATEGORY
  send,      \* the SendSummary call: where it is, its exception, its counters
  calls      \* the number of ProcessLog calls started on the LogParser object

mvars == <<summary, fieldlist, valuelist, mpc, idx, merr, runs, first, cmdout, uname,
           lsbread, rawdate>>
lvars == <<logtype, ParseLog, tests, results, suites, attrs, mach, log, lpc, lerr, order,
           send, calls>>

VARIABLES
  \* ---- Machine._TestDictKeys on the tables of one Machine object
  ksummary,  \* the keys of self.summary
  kdesc,     \* the keys of self.desc
  tpc,       \* where the self test is: new, done
  retval,    \* what _TestDictKeys returned
  \* ---- RemoteAgent.Config and _SudoConf on one sudoers file
  sudoers,   \* the lines of the sudoers file
  tmpsudo,   \* /tmp/sudoers: <<>> when absent, else <<its lines>>
  add_users, \* the users the loop of Config has still to handle
  sconf,     \* the last _SudoConf call: its user, its copy, what it returned
  nconf,     \* the number of _SudoConf calls made
  \* ---- one TestBed object and its Run
  rhosts,    \* self.rhosts
  op, job,   \* self.options.op, self.options.job
  grel,      \* DISTRIB_RELEASE in /etc/lsb-release of each host
  lrun,      \* DISTRIB_RELEASE in /var/tmp/<job>.run of each host, "" when none
  rebooted,  \* the hosts AutoRun sent 'sudo reboot' to
  started,   \* the hosts RunJob started the job on, in order
  bpc,       \* where Run is: new, prepared, autorun, done, raised
  prev,      \* self.rhosts when Prepare was called
  failed,    \* the hosts for which a copy of Prepare failed
  before,    \* self.rhosts and the run files when AutoRun was last called
  nauto      \* the number of AutoRun calls made

svars == <<ksummary, kdesc, tpc, retval>>
dvars == <<sudoers, tmpsudo, add_users, sconf, nconf>>
bvars == <<rhosts, op, job, grel, lrun, rebooted, started, bpc, prev, failed, before, nauto>>
vars == <<mvars, lvars, svars, dvars, bvars>>

\* harness.ExecGetOutput(cmd, output=True): the command's stdout, whatever its
\* return code (a failed command prints nothing on stdout).
ExecGetOutput(cmd) == cmdout[CommandIndex(cmd)]

NoSnapshot == [taken |-> FALSE, summary |-> InitSummary, fieldlist |-> <<>>, valuelist |-> <<>>]

\* The Machine object as __init__ leaves it.
NewMachine ==
  /\ summary = InitSummary
  /\ fieldlist = <<>>
  /\ valuelist = <<>>
  /\ mpc = "idle"
  /\ idx = 0
  /\ merr = "none"
  /\ runs = 0
  /\ first = NoSnapshot
  /\ lsbread = FALSE
  /\ rawdate = None

\* sut.ReadLSBRel(), called on the fresh object as RemoteAgent._RunInventory does.
ReadLSBRel ==
  /\ mpc = "idle"
  /\ ~lsbread
  /\ summary' = ReadLSBRelSummary(summary, LsbRelease)
  /\ lsbread' = TRUE
  /\ UNCHANGED <<fieldlist, valuelist, mpc, idx, merr, runs, first, cmdout, uname, rawdate>>
  /\ UNCHANGED <<lvars, svars, dvars, bvars>>

\* RunInventory is entered.
RunInventoryCall ==
  /\ mpc \in {"idle", "done", "raised"}
  /\ runs < MaxRuns
  /\ mpc' = "scan"
  /\ idx' = 1
  /\ merr' = "none"
  /\ runs' = runs + 1
  /\ rawdate' = None
  /\ UNCHANGED <<summary, fieldlist, valuelist, first, cmdout, uname, lsbread>>
  /\ UNCHANGED <<lvars, svars, dvars, bvars>>

\* for item in self.components: self.GetInventory(item)
GetInventoryCall ==
  /\ mpc = "scan"
  /\ summary' = GetInventory(summary, components[idx],
                             ExecGetOutput(components[idx].command))
  /\ IF idx < Len(components)
     THEN idx' = idx + 1 /\ mpc' = mpc
     ELSE idx' = 0 /\ mpc' = "uname"
  /\ UNCHANGED <<fieldlist, valuelist, merr, runs, first, cmdout, uname, lsbread, rawdate>>
  /\ UNCHANGED <<lvars, svars, dvars, bvars>>

\* system_os = platform.uname() and the three assignments from it.
UnameStep ==
  /\ mpc = "uname"
  /\ summary' = [summary EXCEPT !["node"] = PyStr(uname[2]),
                                !["kernel"] = PyStr(uname[3]),
                                !["arch"] = PyStr(uname[5])]
  /\ mpc' = "video"
  /\ UNCHANGED <<fieldlist, valuelist, idx, merr, runs, first, cmdout, uname, lsbread, rawdate>>
  /\ UNCHANGED <<lvars, svars, dvars, bvars>>

\* if not self.summary['video_memory']: ... the lspci fallback.
VideoMemoryStep ==
  /\ mpc = "video"
  /\ IF Truthy(summary["video_memory"])
     THEN /\ mpc' = "fill"
          /\ UNCHANGED <<summary, merr>>
     ELSE LET r == VideoMemoryScan(summary, ExecGetOutput(lspci_cmd))
          IN /\ summary' = r.summary
             /\ merr' = r.err
             /\ mpc' = IF r.err = "none" THEN "fill" ELSE "raised"
  /\ UNCHANGED <<fieldlist, valuelist, idx, runs, first, cmdout, uname, lsbread, rawdate>>
  /\ UNCHANGED <<lvars, svars, dvars, bvars>>

\* for key in self.summary: if not self.summary[key]: ... = 'unknown'
FillUnknownStep ==
  /\ mpc = "fill"
  /\ summary' = FillUnknown(summary)
  /\ mpc' = "date"
  /\ UNCHANGED <<fieldlist, valuelist, idx, merr, runs, first, cmdout, uname, lsbread, rawdate>>
  /\ UNCHANGED <<lvars, svars, dvars, bvars>>

\* Format the date for our database: strptime raises ValueError on a text
\* that is not a date written %m/%d/%Y.
FormatDateStep ==
  /\ mpc = "date"
  /\ LET newdate == strptime(summary["bios_date"].s)
     IN IF newdate.ok
        THEN /\ summary' = [summary EXCEPT !["bios_date"] = PyStr(strftime(newdate))]
             /\ mpc' = "lists"
             /\ UNCHANGED merr
        ELSE /\ mpc' = "raised"
             /\ merr' = "ValueError"
             /\ UNCHANGED summary
  /\ rawdate' = summary["bios_date"]
  /\ UNCHANGED <<fieldlist, valuelist, idx, runs, first, cmdout, uname, lsbread>>
  /\ UNCHANGED <<lvars, svars, dvars, bvars>>

\* Put the keys and values in lists for database insertion; RunInventory returns.
AppendListsStep ==
  /\ mpc = "lists"
  /\ fieldlist' = fieldlist \o SummaryKeys
  /\ valuelist' = valuelist \o [i \in 1..Len(SummaryKeys) |-> summary[SummaryKeys[i]]]
  /\ mpc' = "done"
  /\ first' = IF runs = 1
              THEN [taken |-> TRUE, summary |-> summary,
                    fieldlist |-> fieldlist', valuelist |-> valuelist']
              ELSE first
  /\ UNCHANGED <<summary, idx, merr, runs, cmdout, uname, lsbread, rawdate>>
  /\ UNCHANGED <<lvars, svars, dvars, bvars>>

\* =================================================================== LogParser
\* The values of SUITE_CATEGORY identify the log type.
SUITE_CATEGORY == [Accept |-> "PyreRing Test Report",
                   DBench |-> "dbench",
                   LTP |-> "Linux Test Project",
                   Net_Stress |-> "NetPerf Benchmark",
                   Stress |-> "Stress Test",
                   System_Stress |-> "System Stress Duration",
                   UnixBench |-> "BYTE UNIX Benchmarks"]

LOG_KEYS == [Accept |-> <<"SETUP", "TEARDOWN">>,
             DBench |-> <<"Throughput", "Failed">>,
             LTP |-> <<"PASS", "FAIL">>,
             Net_Stress |-> <<"remote results obtained", "could not">>,
             Stress |-> <<"PASS", "FAIL">>,
             System_Stress |-> <<"successful run completed", "failed run completed">>]

\* log_methods of _GetFunction.
log_methods == [Accept |-> "_ParsePRLog",
                DBench |-> "_ParseDBenchLog",
                LTP |-> "_ParseLTPLog",
                Net_Stress |-> "_ParseNetStressLog",
                Stress |-> "_ParseStressLog",
                System_Stress |-> "_ParseSystemStressLog",
                UnixBench |-> "_ParseUnixBenchLog"]

\* The order in which SUITE_CATEGORY is written in the source.
DeclaredOrder ==
  <<"Accept", "DBench", "LTP", "Net_Stress", "Stress", "System_Stress", "UnixBench">>

\* `for key in self.SUITE_CATEGORY` walks the dictionary in the order of its
\* hash table.  CPython 2 (32 and 64 bit) stores these seven keys in the order
\* CPythonOrder; an interpreter with insertion-ordered dictionaries (PyPy)
\* walks them as declared.
CPythonOrder ==
  <<"UnixBench", "Stress", "LTP", "Accept", "System_Stress", "DBench", "Net_Stress">>

DictOrders == {CPythonOrder, DeclaredOrder}

\* tokens of ProcessLog.
tokens == [arch |-> "Architecture:",
           biosdate |-> "Bios Date:",
           code |-> "Codename:",
           cpu |-> "Processor Model:",
           cpu_quantity |-> "Number of Processors:",
           dist |-> "Distribution:",
           kernel |-> "Kernel Version:",
           memory |-> "System Memory:",
           model |-> "System Model:",
           node |-> "Host Name:",
           release |-> "OS Release:",
           score |-> "System Benchmarks Index Score",
           serial |-> "System Serial:",
           start |-> "Start Time:",
           version |-> "LTP_Release:"]

\* A token that ends in ':' and the text before its ':'.
ColonStem ==
  [t \in {"Architecture:", "Bios Date:", "Codename:", "Processor Model:",
          "Number of Processors:", "Distribution:", "Kernel Version:",
          "System Memory:", "System Model:", "Host Name:", "OS Release:",
          "System Serial:", "Start Time:", "LTP_Release:", "TESTCASE:",
          "Suites:", "Stress Test:"} |->
     CASE t = "Architecture:" -> "Architecture"
       [] t = "Bios Date:" -> "Bios Date"
       [] t = "Codename:" -> "Codename"
       [] t = "Processor Model:" -> "Processor Model"
       [] t = "Number of Processors:" -> "Number of Processors"
       [] t = "Distribution:" -> "Distribution"
       [] t = "Kernel Version:" -> "Kernel Version"
       [] t = "System Memory:" -> "System Memory"
       [] t = "System Model:" -> "System Model"
       [] t = "Host Name:" -> "Host Name"
       [] t = "OS Release:" -> "OS Release"
       [] t = "System Serial:" -> "System Serial"
       [] t = "Start Time:" -> "Start Time"
       [] t = "LTP_Release:" -> "LTP_Release"
       [] t = "TESTCASE:" -> "TESTCASE"
       [] t = "Suites:" -> "Suites"
       [] t = "Stress Test:" -> "Stress Test"]

\* `pat in line` for the patterns of LogParser: a token holds the pattern when
\* it is the pattern, or is the pattern followed by ':'.
Has(line, pat) ==
  \E i \in 1..Len(line) :
    \/ line[i] = pat
    \/ line[i] \in DOMAIN ColonStem /\ pat \in {ColonStem[line[i]], ":"}

\* The line with every token that ends in ':' written as its stem and ":".
RECURSIVE ExpandColons(_)
ExpandColons(line) ==
  IF line = <<>> THEN <<>>
  ELSE (IF Head(line) \in DOMAIN ColonStem
        THEN <<ColonStem[Head(line)], ":">> ELSE <<Head(line)>>)
       \o ExpandColons(Tail(line))

\* _GetSubString(line): the text between the first and the second ':' of the
\* line, stripped; the line itself when it has no ':'.
GetSubString(line) ==
  LET sections == Split(ExpandColons(line), ":")
  IN IF Len(sections) < 2 THEN line ELSE Strip(sections[2])

\* _GetShortHostName without the cut at the first '.'.
GetFullHostName(line) == GetSubString(line)

\* _GetShortHostName(line)
GetShortHostName(line) == Split(GetSubString(line), ".")[1]

\* _SetMachineName(tokens, line): the dictionary of the values the line gives
\* to the keys whose token it holds.
SetMachineName(toks, line) ==
  [key \in {k \in DOMAIN toks : Has(line, toks[k])} |->
     IF key = "node" THEN GetShortHostName(line)
     ELSE IF key = "start" THEN Strip(Split(line, toks[key])[2])
     ELSE GetSubString(line)]

\* _IsTestResult(line, type)
IsTestResult(line, type) == Has(line, LOG_KEYS[type][1]) \/ Has(line, LOG_KEYS[type][2])

\* line.split(): the fields of the line between runs of whitespace.
RECURSIVE SplitWhitespace(_)
SplitWhitespace(line) ==
  LET s == LStrip(line)
  IN IF s = <<>> THEN <<>>
     ELSE LET ws == {i \in 1..Len(s) : s[i] \in Whitespace}
              e == IF ws = {} THEN Len(s) + 1 ELSE Min(ws)
          IN <<SubSeq(s, 1, e - 1)>> \o SplitWhitespace(SubSeq(s, e, Len(s)))

\* The dialects whose signature is in the line.
Matching(line) == {key \in DOMAIN SUITE_CATEGORY : Has(line, SUITE_CATEGORY[key])}

\* The first key, in the order the dictionary is walked, among a set of keys.
FirstIn(ord, keys) == ord[Min({i \in 1..Len(ord) : ord[i] \in keys})]

\* _GetFunction returning the PyreRing parser without setting the log type.
GetFunctionUnclassified(lines, ord) == [logtype |-> "None", method |-> "_ParsePRLog"]

\* _GetFunction(log, filename): the log type of the first line that holds a
\* signature, and its method; "None" (the function falls off its end after
\* logging the error) when no line does.
RECURSIVE GetFunction(_, _)
GetFunction(lines, ord) ==
  IF lines = <<>> THEN [logtype |-> "None", method |-> "None"]
  ELSE IF Matching(Head(lines)) # {}
       THEN LET key == FirstIn(ord, Matching(Head(lines)))
            IN [logtype |-> key, method |-> log_methods[key]]
       ELSE GetFunction(Tail(lines), ord)

\* The test case name _ParseSystemStressLog, _ParseNetStressLog and
\* _ParseDBenchLog hand to _ParseTxtLog.
TxtTestName == [System_Stress |-> "system_stress_test",
                Net_Stress |-> "netperf_stress_test",
                DBench |-> "dbench_stress_test"]

\* ------------------------------------------------------ LogParser._ParsePRLog
EmptyDict == [x \in {} |-> None]

\* d[key] = value
Put(d, key, value) == [x \in DOMAIN d \cup {key} |-> IF x = key THEN value ELSE d[x]]

Last(s) == s[Len(s)]

\* eval() of the text of a Suites: line: a list literal of quoted names gives
\* the list of the names, any other text raises.
EvalSuites(text) ==
  LET t == Strip(text)
      body == SubSeq(t, 2, Len(t) - 1)
      items == IF body = <<>> THEN <<>> ELSE Split(body, ",")
      IsName(item) == LET i == Strip(item)
                      IN Len(i) = 3 /\ i[1] = "'" /\ i[3] = "'"
  IN IF Len(t) >= 2 /\ t[1] = "[" /\ t[Len(t)] = "]"
        /\ \A j \in 1..Len(items) : IsName(items[j])
     THEN [ok |-> TRUE, value |-> [j \in 1..Len(items) |-> <<Strip(items[j])[2]>>]]
     ELSE [ok |-> FALSE, value |-> <<>>]

\* The state of _ParsePRLog after one more line.  st.tcname is the local
\* variable testcase_name (None while it is unbound).
PRLine(st, line, toks) ==
  IF st.err # "none" THEN st
  ELSE IF Has(line, "TESTCASE:")
  THEN IF IsTestResult(line, "Accept") THEN st
       ELSE LET sections == SplitWhitespace(line)
                tc == IF Len(sections) > 1
                      THEN PyStr(Last(Split(sections[2], "/")))
                      ELSE st.tcname
            IN IF tc = None THEN [st EXCEPT !.err = "UnboundLocalError"]
               ELSE IF Len(sections) < 3
               THEN [st EXCEPT !.tcname = tc, !.tests = Append(@, tc.s),
                               !.err = "IndexError"]
               ELSE [st EXCEPT !.tcname = tc, !.tests = Append(@, tc.s),
                               !.results = Put(@, tc.s, sections[3])]
  ELSE IF Has(line, "Suites:")
  THEN IF IsTestResult(line, "Accept") THEN st
       ELSE LET v == EvalSuites(GetSubString(line))
            IN IF v.ok THEN [st EXCEPT !.suites = v.value]
               ELSE [st EXCEPT !.err = "SyntaxError"]
  ELSE [st EXCEPT !.mach =
          [key \in DOMAIN toks |->
             IF Has(line, toks[key])
             THEN PyStr(IF key = "node" THEN GetShortHostName(line)
                        ELSE GetSubString(line))
             ELSE st.mach[key]]]

RECURSIVE PRLines(_, _, _)
PRLines(st, lines, toks) ==
  IF lines = <<>> THEN st
  ELSE PRLines(PRLine(st, Head(lines), toks), Tail(lines), toks)

\* _ParsePRLog(log, mach, tokens)
ParsePRLogResult(lines, tsts, res, sts, mch) ==
  PRLines([tests |-> tsts, results |-> res, suites |-> sts, mach |-> mch,
           tcname |-> None, err |-> "none"],
          lines, [tokens EXCEPT !.version = "Kernel Version"])

\* ---------------------------------------------------- LogParser._AssignValues
\* '%s' % value
Fmt(v) == IF v = None THEN <<"None">> ELSE v.s

AttrNames == {"arch", "biosdate", "build", "cpu", "cpu_quantity", "description",
              "id", "kernel", "logname", "memory", "model", "name", "release",
              "serial", "start", "version"}

InitAttrs == [a \in AttrNames |-> None]

\* The description left as the parser set it, never defaulted.
DescriptionKept(description, model) == description

\* if not self.description: self.description = self.model
DefaultDescription(description, model) ==
  IF Truthy(description) THEN description ELSE model

\* The attributes after _AssignValues(mach) and the exception that ended it:
\* mach['dist'] + ' ' + mach['code'] raises TypeError when either is None, and
\* arch and biosdate are assigned before it.
AssignValues(at, mch, ltype) ==
  LET a1 == [at EXCEPT !.arch = mch.arch, !.biosdate = mch.biosdate]
  IN IF mch.dist = None \/ mch.code = None
     THEN [attrs |-> a1, err |-> "TypeError"]
     ELSE LET a2 == [a1 EXCEPT
                       !.build = PyStr(mch.dist.s \o <<SP>> \o mch.code.s),
                       !.cpu = mch.cpu,
                       !.cpu_quantity = mch.cpu_quantity,
                       !.kernel = mch.kernel,
                       !.logname = PyStr(Fmt(mch.node) \o <<".", ltype, ".", "Log">>),
                       !.memory = mch.memory,
                       !.model = mch.model,
                       !.name = PyStr(<<ltype, ".">> \o Fmt(mch.node) \o <<".">>
                                      \o Fmt(mch.start)),
                       !.serial = mch.serial,
                       !.version = mch.version]
              a3 == [a2 EXCEPT
                       !.description = DefaultDescription(a2.description, a2.model),
                       !.release = IF Truthy(a2.release) THEN @ ELSE mch.release]
          IN [attrs |-> a3, err |-> "none"]

\* ------------------------------------------------------- LogParser.ProcessLog
\* The lines a log file may hold.
LogLines ==
  { <<"PyreRing Test Report">>,
    <<"dbench", SP, "version", SP, "3.04">>,
    <<"Linux Test Project">>,
    <<"NetPerf Benchmark">>,
    <<"Stress Test">>,
    <<"System Stress Duration", ":", SP, "1h">>,
    <<"BYTE UNIX Benchmarks">>,
    <<"Linux Test Project", SP, "Stress Test">>,
    <<"testcase01", SP, "PASS">>,
    <<"testcase02", SP, "FAIL">>,
    <<"uname", SP, "-a">> }

\* The lines a PyreRing report may hold below its title.
ReportLines ==
  { <<"TESTCASE:", SP, "suite", "/", "test_a", SP, "PASS">>,
    <<"TESTCASE:", SP, "suite", "/", "test_a", SP, "SKIPPED">>,
    <<"TESTCASE:", SP, "test_c">>,
    <<"TESTCASE:", SP, "suite", "/", "SETUP", SP, "PASS">>,
    <<"Host Name:", SP, "foo", ".", "example", ".", "com">>,
    <<"Distribution:", SP, "Ubuntu">>,
    <<"Codename:", SP, "hardy">>,
    <<"System Model:", SP, "PowerEdge">>,
    <<"Start Time:", SP, "1200">> }

Reports == {<<<<SUITE_CATEGORY["Accept"]>>>> \o body : body \in SeqUpTo(ReportLines, MaxReportLen)}

Logs == SeqUpTo(LogLines, MaxLogLen) \cup Reports

\* SendSummary before it is called.  warned: the call has logged a warning
\* (the method has no statement that logs one).
NoSummary == [pc |-> "idle", err |-> "none", tests_passed |-> 0, tests_failed |-> 0,
              tests_error |-> 0, tests_timeout |-> 0, warned |-> FALSE]

\* The LogParser object as __init__ leaves it.
NewLogParser ==
  /\ logtype = "None"
  /\ ParseLog = "None"
  /\ tests = <<>>
  /\ results = EmptyDict
  /\ suites = <<>>
  /\ attrs = InitAttrs
  /\ mach = [key \in DOMAIN tokens |-> None]
  /\ log = <<>>
  /\ lpc = "new"
  /\ lerr = "none"
  /\ send = NoSummary
  /\ calls = 0

\* ProcessLog(filename) up to the call of _GetFunction: mach is built and the
\* lines of the file are read.
ProcessLogCall ==
  /\ lpc = "new"
  /\ \E lines \in Logs : log' = lines
  /\ mach' = [key \in DOMAIN tokens |-> None]
  /\ lpc' = "classify"
  /\ calls' = calls + 1
  /\ UNCHANGED <<logtype, ParseLog, tests, results, suites, attrs, lerr, order>>
  /\ UNCHANGED <<mvars, send, svars, dvars, bvars>>

\* ProcessLog(filename) called once more, with the same file, on an object
\* whose last ProcessLog has returned: mach is built anew and the file is read
\* again; the attributes of the object are as the last call left them.
ProcessLogAgain ==
  /\ lpc = "done"
  /\ calls < MaxCalls
  /\ mach' = [key \in DOMAIN tokens |-> None]
  /\ lpc' = "classify"
  /\ calls' = calls + 1
  /\ UNCHANGED <<logtype, ParseLog, tests, results, suites, attrs, log, lerr, order>>
  /\ UNCHANGED <<mvars, send, svars, dvars, bvars>>

\* self._ParseLog = self._GetFunction(log, filename)
GetFunctionCall ==
  /\ lpc = "classify"
  /\ \E f \in {GetFunction(log, order)} :
        /\ logtype' = (IF f.logtype = "None" THEN logtype ELSE f.logtype)
        /\ ParseLog' = f.method
  /\ lpc' = "parse"
  /\ UNCHANGED <<tests, results, suites, attrs, mach, log, lerr, order>>
  /\ UNCHANGED <<mvars, send, calls, svars, dvars, bvars>>

\* status = self._ParseLog(log, mach, tokens) when _GetFunction returned None:
\* calling None raises TypeError.
CallNone ==
  /\ lpc = "parse"
  /\ ParseLog = "None"
  /\ lpc' = "raised"
  /\ lerr' = "TypeError"
  /\ UNCHANGED <<logtype, ParseLog, tests, results, suites, attrs, mach, log, order>>
  /\ UNCHANGED <<mvars, send, calls, svars, dvars, bvars>>

ParsePRLog ==
  /\ lpc = "parse"
  /\ ParseLog = "_ParsePRLog"
  /\ \E r \in {ParsePRLogResult(log, tests, results, suites, mach)} :
        /\ tests' = r.tests
        /\ results' = r.results
        /\ suites' = r.suites
        /\ mach' = r.mach
        /\ lerr' = r.err
        /\ lpc' = IF r.err = "none" THEN "assign" ELSE "raised"
  /\ UNCHANGED <<logtype, ParseLog, attrs, log, order>>
  /\ UNCHANGED <<mvars, send, calls, svars, dvars, bvars>>

\* _ParseLTPLog: its first statement, self.comp_names.append(comp), raises
\* AttributeError: no code of the class ever creates comp_names.
ParseLTPLog ==
  /\ lpc = "parse"
  /\ ParseLog = "_ParseLTPLog"
  /\ lpc' = "raised"
  /\ lerr' = "AttributeError"
  /\ UNCHANGED <<logtype, ParseLog, tests, results, suites, attrs, mach, log, order>>
  /\ UNCHANGED <<mvars, send, calls, svars, dvars, bvars>>

\* _ParseStressLog: the same first statement.
ParseStressLog ==
  /\ lpc = "parse"
  /\ ParseLog = "_ParseStressLog"
  /\ lpc' = "raised"
  /\ lerr' = "AttributeError"
  /\ UNCHANGED <<logtype, ParseLog, tests, results, suites, attrs, mach, log, order>>
  /\ UNCHANGED <<mvars, send, calls, svars, dvars, bvars>>

\* _ParseSystemStressLog, _ParseNetStressLog, _ParseDBenchLog call
\* _ParseTxtLog, whose first statement is the same.
ParseTxtLog ==
  /\ lpc = "parse"
  /\ ParseLog \in {"_ParseSystemStressLog", "_ParseNetStressLog", "_ParseDBenchLog"}
  /\ lpc' = "raised"
  /\ lerr' = "AttributeError"
  /\ UNCHANGED <<logtype, ParseLog, tests, results, suites, attrs, mach, log, order>>
  /\ UNCHANGED <<mvars, send, calls, svars, dvars, bvars>>

\* _ParseUnixBenchLog: the test name is appended, then building values reads
\* the undefined global report_name and raises NameError.
ParseUnixBenchLog ==
  /\ lpc = "parse"
  /\ ParseLog = "_ParseUnixBenchLog"
  /\ tests' = IF \E i \in 1..Len(tests) : tests[i] = <<"UnixBench">>
              THEN tests ELSE Append(tests, <<"UnixBench">>)
  /\ lpc' = "raised"
  /\ lerr' = "NameError"
  /\ UNCHANGED <<logtype, ParseLog, results, suites, attrs, mach, log, order>>
  /\ UNCHANGED <<mvars, send, calls, svars, dvars, bvars>>

\* self._AssignValues(mach); ProcessLog returns.
AssignValuesCall ==
  /\ lpc = "assign"
  /\ \E r \in {AssignValues(attrs, mach, logtype)} :
        /\ attrs' = r.attrs
        /\ lerr' = r.err
        /\ lpc' = IF r.err = "none" THEN "done" ELSE "raised"
  /\ UNCHANGED <<logtype, ParseLog, tests, results, suites, mach, log, order>>
  /\ UNCHANGED <<mvars, send, calls, svars, dvars, bvars>>

\* SendSummary(build, address) on a parser whose ProcessLog has returned: the
\* four counters are set to 0, then emailmessage.EmailMessage() reads the
\* global name emailmessage, which the module never imports or defines, and
\* raises NameError; the loop over self.results is not reached.
SendSummary ==
  /\ lpc = "done"
  /\ send.pc = "idle"
  /\ send' = [NoSummary EXCEPT !.pc = "raised", !.err = "NameError"]
  /\ UNCHANGED <<logtype, ParseLog, tests, results, suites, attrs, mach, log, lpc, lerr, order>>
  /\ UNCHANGED <<mvars, calls, svars, dvars, bvars>>

\* ------------------------------------------------------ Machine._TestDictKeys
\* The keys of self.desc, in the order the table is written.
DescKeys ==
  <<"arch", "bios_date", "bios_vendor", "bios_version", "cpu_bits",
    "cpu_capability", "cpu_capacity", "cpu_model", "cpu_qty", "cpu_speed",
    "cpu_vendor", "dsk_config", "dsk_model", "dsk_speed", "dsk_type",
    "dsk_vendor", "dsk_width", "form", "os_rel", "os_desc", "kernel",
    "mem_size", "model", "nic_config", "nic_mac", "nic_model", "nic_speed",
    "nic_vendor", "nic_width", "node", "os_distrib", "os_rev", "serial",
    "sysconfig", "vendor", "video_model", "video_vendor", "video_memory">>

basic_list ==
  <<"os_distrib", "os_rel", "os_rev", "os_desc", "model", "kernel", "arch",
    "cpu_model", "cpu_qty", "mem_size", "bios_date", "bios_vendor",
    "video_model", "nic_model", "dsk_model">>

\* set(list)
SetOf(list) == {list[i] : i \in 1..Len(list)}

\* The loop over self.components: one error for each component that repeats
\* a key of an earlier one; kcomp collects the keys seen.
RECURSIVE DuplicateErrors(_, _)
DuplicateErrors(i, kcomp) ==
  IF i > Len(components) THEN 0
  ELSE (IF kcomp \cap ItemKeys(components[i]) # {} THEN 1 ELSE 0)
       + DuplicateErrors(i + 1, kcomp \cup ItemKeys(components[i]))

ComponentKeys == UNION {ItemKeys(components[i]) : i \in 1..Len(components)}

\* retval of _TestDictKeys for the key sets ks of summary and kd of desc.
TestDictKeys(ks, kd) ==
  DuplicateErrors(1, {})
  + (IF ks \ kd # {} THEN 1 ELSE 0)
  + (IF ~(ComponentKeys \subseteq ks) THEN 1 ELSE 0)
  + (IF ~(SetOf(basic_list) \subseteq ks) THEN 1 ELSE 0)

\* A table as shipped, with one key dropped, or with one key added that no
\* shipped table has.
EditedTables(keys) ==
  {keys} \cup {keys \ {k} : k \in keys} \cup {keys \cup {"hostid"}}

\* __init__ ends by calling the self test.
TestDictKeysCall ==
  /\ tpc = "new"
  /\ retval' = TestDictKeys(ksummary, kdesc)
  /\ tpc' = "done"
  /\ UNCHANGED <<ksummary, kdesc>>
  /\ UNCHANGED <<mvars, lvars, dvars, bvars>>

\* No Machine is under construction.
NoSelfTest ==
  /\ ksummary = KeySet
  /\ kdesc = SetOf(DescKeys)
  /\ tpc = "done"
  /\ retval = 0

\* ------------------------------------------- RemoteAgent.Config and _SudoConf
\* User names and the lines of a file are token sequences, so that one name can
\* be a part of another.
Users == {<<"root">>, <<"test">>, <<"test", "bed">>}

\* append_string of _SudoConf
AppendString(username) == username \o <<" ALL=(ALL) NOPASSWD: ALL\n">>

\* _CheckFile(username, filename): some line has username as a part of it,
\* from some place j on (line.find(username) != -1).
CheckFile(username, file) ==
  \E i \in 1..Len(file) :
    \E j \in 1..(Len(file[i]) - Len(username) + 1) :
      SubSeq(file[i], j, j + Len(username) - 1) = username

\* _SudoConf that appends although the copy failed.
SudoConfNoBackup(username, file, backup, copyOk, openOk, writeOk) ==
  IF CheckFile(username, file)
  THEN [sudoers |-> file, tmpsudo |-> backup, copy |-> "none", status |-> "True"]
  ELSE [sudoers |-> Append(file, AppendString(username)),
        tmpsudo |-> IF copyOk THEN <<file>> ELSE backup,
        copy |-> IF copyOk THEN "ok" ELSE "IOError", status |-> "True"]

\* _SudoConf(username, sudofile) on the file and the backup it finds, when
\* shutil.copy, open(sudofile, 'a') and f.write succeed or raise IOError. A
\* failed open leaves f unbound: the finally clause raises UnboundLocalError.
SudoConf(username, file, backup, copyOk, openOk, writeOk) ==
  IF CheckFile(username, file)
  THEN [sudoers |-> file, tmpsudo |-> backup, copy |-> "none", status |-> "True"]
  ELSE IF ~copyOk
  THEN [sudoers |-> file, tmpsudo |-> backup, copy |-> "IOError", status |-> "False"]
  ELSE IF ~openOk
  THEN [sudoers |-> file, tmpsudo |-> <<file>>, copy |-> "ok",
        status |-> "UnboundLocalError"]
  ELSE IF ~writeOk
  THEN [sudoers |-> file, tmpsudo |-> <<file>>, copy |-> "ok", status |-> "False"]
  ELSE [sudoers |-> Append(file, AppendString(username)), tmpsudo |-> <<file>>,
        copy |-> "ok", status |-> "True"]

\* Config(user) with no public key, up to its loop: add_users is the role
\* account of the configuration file and then the user, if one is given.
ConfigCall ==
  /\ add_users = <<>>
  /\ nconf < MaxSudoCalls
  /\ \E role \in Users, user \in Users \cup {<<>>} :
       add_users' = <<role>> \o (IF user # <<>> THEN <<user>> ELSE <<>>)
  /\ UNCHANGED <<sudoers, tmpsudo, sconf, nconf>>
  /\ UNCHANGED <<mvars, lvars, svars, bvars>>

\* One turn of the loop of Config; a failed _SudoConf ends Config.
ConfigLoop ==
  /\ add_users # <<>>
  /\ nconf < MaxSudoCalls
  /\ \E copyOk \in BOOLEAN, openOk \in BOOLEAN, writeOk \in BOOLEAN :
       \E r \in {SudoConf(Head(add_users), sudoers, tmpsudo, copyOk, openOk, writeOk)} :
         /\ sudoers' = r.sudoers
         /\ tmpsudo' = r.tmpsudo
         /\ sconf' = [user |-> Head(add_users), copy |-> r.copy, status |-> r.status]
         /\ add_users' = IF r.status = "True" THEN Tail(add_users) ELSE <<>>
  /\ nconf' = nconf + 1
  /\ UNCHANGED <<mvars, lvars, svars, bvars>>

\* _SudoConf called on its own.
SudoConfCall ==
  /\ add_users = <<>>
  /\ nconf < MaxSudoCalls
  /\ \E username \in Users, copyOk \in BOOLEAN, openOk \in BOOLEAN, writeOk \in BOOLEAN :
       \E r \in {SudoConf(username, sudoers, tmpsudo, copyOk, openOk, writeOk)} :
         /\ sudoers' = r.sudoers
         /\ tmpsudo' = r.tmpsudo
         /\ sconf' = [user |-> username, copy |-> r.copy, status |-> r.status]
  /\ nconf' = nconf + 1
  /\ UNCHANGED add_users
  /\ UNCHANGED <<mvars, lvars, svars, bvars>>

\* No sudoers file is being configured.
NoSudo ==
  /\ sudoers = <<>>
  /\ tmpsudo = <<>>
  /\ add_users = <<>>
  /\ sconf = [user |-> <<>>, copy |-> "none", status |-> "none"]
  /\ nconf = 0

\* -------------------------------------------------------------------- TestBed
Hosts == {"hosta", "hostb"}
Releases == {"8.04", "8.10"}

\* self.jobs, the job names of the configuration file. The job None is "".
jobs == {"accept"}

\* The operations Prepare copies packages for.
PrepareOps == {"auto", "config", "get", "query", "run"}

\* for rhost in removehosts: self.rhosts.remove(rhost); list.remove takes the
\* first occurrence, at place i, out of the list.
RECURSIVE RemoveHosts(_, _)
RemoveHosts(list, removehosts) ==
  IF removehosts = {} THEN list
  ELSE LET rhost == CHOOSE h \in removehosts : TRUE
           i == Min({j \in 1..Len(list) : list[j] = rhost})
       IN RemoveHosts(SubSeq(list, 1, i - 1) \o SubSeq(list, i + 1, Len(list)),
                      removehosts \ {rhost})

\* CheckVersion(rhost, job) with the releases rel and the run files run of the
\* hosts: what it returns and the run files it leaves.
CheckVersion(rel, run, rhost) ==
  IF rel[rhost] = run[rhost]
  THEN [ret |-> TRUE, lrun |-> run]
  ELSE [ret |-> FALSE, lrun |-> [run EXCEPT ![rhost] = rel[rhost]]]

\* The first loop of AutoRun from host i of the list on.
RECURSIVE AutoRunLoop(_, _, _, _)
AutoRunLoop(list, rel, i, st) ==
  IF i > Len(list) THEN st
  ELSE LET c == CheckVersion(rel, st.lrun, list[i])
       IN AutoRunLoop(list, rel, i + 1,
            IF c.ret
            THEN [st EXCEPT !.removehosts = @ \cup {list[i]}]
            ELSE [st EXCEPT !.lrun = c.lrun, !.rebooted = @ \cup {list[i]}])

\* Prepare(op, job). A job name the configuration file does not have leaves
\* self.scppkgs unset, and the copy loop of the first host raises
\* AttributeError. bad are the places of the list where a copy fails.
PrepareCall ==
  /\ bpc = "new"
  /\ prev' = rhosts
  /\ IF op \notin PrepareOps
     THEN /\ bpc' = "prepared"
          /\ UNCHANGED <<rhosts, failed>>
     ELSE IF job # "" /\ job \notin jobs /\ job # "all" /\ rhosts # <<>>
     THEN /\ bpc' = "raised"
          /\ UNCHANGED <<rhosts, failed>>
     ELSE \E bad \in SUBSET (1..Len(rhosts)) :
            /\ failed' = {rhosts[i] : i \in bad}
            /\ rhosts' = RemoveHosts(rhosts, failed')
            /\ bpc' = "prepared"
  /\ UNCHANGED <<op, job, grel, lrun, rebooted, started, before, nauto>>
  /\ UNCHANGED <<mvars, lvars, svars, dvars>>

\* AutoRun(job)
AutoRunCall ==
  /\ op = "auto"
  /\ bpc \in {"prepared", "autorun"}
  /\ nauto < MaxAutoRuns
  /\ before' = [rhosts |-> rhosts, lrun |-> lrun]
  /\ \E st \in {AutoRunLoop(rhosts, grel, 1,
                  [lrun |-> lrun, removehosts |-> {}, rebooted |-> {}])} :
       /\ lrun' = st.lrun
       /\ rebooted' = rebooted \cup st.rebooted
       /\ rhosts' = RemoveHosts(rhosts, st.removehosts)
  /\ nauto' = nauto + 1
  /\ bpc' = "autorun"
  /\ UNCHANGED <<op, job, grel, started, prev, failed>>
  /\ UNCHANGED <<mvars, lvars, svars, dvars>>

\* RunJob(job, op), reached from Run after AutoRun, or for an operation with a
\* job that Run does not handle itself.
RunJobCall ==
  /\ \/ op = "auto" /\ bpc = "autorun"
     \/ op \notin {"clean", "config", "install", "auto", "version"}
        /\ job # "" /\ bpc = "prepared"
  /\ started' = IF job = "" THEN started ELSE started \o rhosts
  /\ bpc' = "done"
  /\ UNCHANGED <<rhosts, op, job, grel, lrun, rebooted, prev, failed, before, nauto>>
  /\ UNCHANGED <<mvars, lvars, svars, dvars>>

\* Configure()
ConfigureCall ==
  /\ op = "config"
  /\ bpc = "prepared"
  /\ bpc' = "done"
  /\ UNCHANGED <<rhosts, op, job, grel, lrun, rebooted, started, prev, failed, before, nauto>>
  /\ UNCHANGED <<mvars, lvars, svars, dvars>>

\* TestBedOp(op) for halt: 'sudo halt' on every host.
TestBedOpCall ==
  /\ op \notin {"clean", "config", "install", "auto", "version"}
  /\ job = ""
  /\ bpc = "prepared"
  /\ bpc' = "done"
  /\ UNCHANGED <<rhosts, op, job, grel, lrun, rebooted, started, prev, failed, before, nauto>>
  /\ UNCHANGED <<mvars, lvars, svars, dvars>>

\* No TestBed object exists.
NoTestBed ==
  /\ rhosts = <<>>
  /\ op = "halt"
  /\ job = ""
  /\ grel = [h \in Hosts |-> "8.04"]
  /\ lrun = [h \in Hosts |-> ""]
  /\ rebooted = {}
  /\ started = <<>>
  /\ bpc = "done"
  /\ prev = <<>>
  /\ failed = {}
  /\ before = [rhosts |-> <<>>, lrun |-> lrun]
  /\ nauto = 0

\* ------------------------------------------------------------ specifications
NoOutput == [i \in 1..Len(Commands) |-> <<>>]

\* One machine, its command outputs, and RunInventory called on one Machine.
InitMachine ==
  /\ NewMachine
  /\ cmdout \in Outputs(1, MaxTotalLines)
  /\ uname \in UnameOutputs
  /\ NewLogParser
  /\ order = CPythonOrder
  /\ NoSelfTest /\ NoSudo /\ NoTestBed

NextMachine ==
  \/ ReadLSBRel
  \/ RunInventoryCall
  \/ GetInventoryCall
  \/ UnameStep
  \/ VideoMemoryStep
  \/ FillUnknownStep
  \/ FormatDateStep
  \/ AppendListsStep

SpecMachine == InitMachine /\ [][NextMachine]_vars

\* One LogParser object and one ProcessLog call on a log file.
InitLog ==
  /\ NewMachine
  /\ cmdout = NoOutput
  /\ uname \in {u \in UnameOutputs : u[5] # <<>>}
  /\ NewLogParser
  /\ order \in DictOrders
  /\ NoSelfTest /\ NoSudo /\ NoTestBed

NextLog ==
  \/ ProcessLogCall
  \/ ProcessLogAgain
  \/ GetFunctionCall
  \/ CallNone
  \/ ParsePRLog
  \/ ParseLTPLog
  \/ ParseStressLog
  \/ ParseTxtLog
  \/ ParseUnixBenchLog
  \/ AssignValuesCall
  \/ SendSummary

SpecLog == InitLog /\ [][NextLog]_vars

\* No Machine runs its inventory and no LogParser reads a log.
NoInventory ==
  /\ NewMachine
  /\ cmdout = NoOutput
  /\ uname \in {u \in UnameOutputs : u[5] # <<>>}
  /\ NewLogParser
  /\ order = CPythonOrder

\* The self test of one Machine, on the shipped tables and on edited ones.
InitSelfTest ==
  /\ ksummary \in EditedTables(KeySet)
  /\ kdesc \in EditedTables(SetOf(DescKeys))
  /\ tpc = "new"
  /\ retval = 0
  /\ NoInventory /\ NoSudo /\ NoTestBed

SpecSelfTest == InitSelfTest /\ [][TestDictKeysCall]_vars

\* One sudoers file, and Config and _SudoConf calls on it.
InitSudo ==
  /\ sudoers \in SeqUpTo({<<"Defaults", " env_reset\n">>, <<"root", " ALL=(ALL) ALL\n">>},
                         MaxSudoLines)
  /\ tmpsudo = <<>>
  /\ add_users = <<>>
  /\ sconf = [user |-> <<>>, copy |-> "none", status |-> "none"]
  /\ nconf = 0
  /\ NoInventory /\ NoSelfTest /\ NoTestBed

NextSudo ==
  \/ ConfigCall
  \/ ConfigLoop
  \/ SudoConfCall

SpecSudo == InitSudo /\ [][NextSudo]_vars

\* One TestBed object, as __init__ leaves it, and its Run.
InitTestBed ==
  /\ rhosts \in SeqUpTo(Hosts, MaxHosts)
  /\ op \in PrepareOps \cup {"halt"}
  /\ job \in jobs \cup {"bogus", ""}
  /\ op \in {"auto", "get", "query", "run"} => job # ""  \* else _CheckOptions exits
  /\ grel \in [Hosts -> Releases]
  /\ lrun \in [Hosts -> Releases \cup {""}]
  /\ rebooted = {}
  /\ started = <<>>
  /\ bpc = "new"
  /\ prev = <<>>
  /\ failed = {}
  /\ before = [rhosts |-> <<>>, lrun |-> lrun]
  /\ nauto = 0
  /\ NoInventory /\ NoSelfTest /\ NoSudo

NextTestBed ==
  \/ PrepareCall
  \/ AutoRunCall
  \/ RunJobCall
  \/ ConfigureCall
  \/ TestBedOpCall

SpecTestBed == InitTestBed /\ [][NextTestBed]_vars

\* ===================================================== claims on the inventory
\* The component (its index in the scan order) that owns fact key k.
OwnerOf(k) == CHOOSE i \in 1..Len(components) : k \in ItemKeys(components[i])

\* The lines, in output order, of the owner's command output that contain the
\* marker of key k.
MarkerLines(k) ==
  LET out == cmdout[OwnerOf(k)]
  IN SelectSeq(out, LAMBDA line : Contains(line, components[OwnerOf(k)][k]))

\* The value a marker line carries for key k.
ValueOn(line, k) == PyStr(LStrip(Split(line, components[OwnerOf(k)][k])[2]))

AnyCpuMarker == \E i \in 1..Len(cmdout) : CpuCount(cmdout[i]) > 0

\* Key k was given a value by some step of RunInventory or by ReadLSBRel
\* (cpu_qty is a count and always has one).
Resolved(k) ==
  \/ k \in ComponentKeys /\ MarkerLines(k) # <<>>
  \/ k = "video_memory" /\ \E i \in 1..Len(cmdout[CommandIndex(lspci_cmd)]) :
                              Contains(cmdout[CommandIndex(lspci_cmd)][i], prefetchable)
  \/ k = "cpu_qty"
  \/ k \in {"node", "kernel", "arch"}
  \/ k \in {"os_rel", "os_desc", "os_distrib", "os_rev"} /\ lsbread

\* C1: after RunInventory completes, every key of the canonical schema is in
\* the summary, no value is None, and every key that no step resolved holds
\* the string "unknown".
C1_UnresolvedIsUnknown ==
  mpc = "done" =>
    /\ DOMAIN summary = KeySet
    /\ \A k \in KeySet : summary[k] # None
    /\ \A k \in KeySet : ~Resolved(k) => summary[k] = Unknown

C1_Witness ==
  /\ mpc = "done"
  /\ ~Resolved("cpu_model") /\ summary["cpu_model"] = Unknown
  /\ ~Resolved("os_rel") /\ summary["os_rel"] = Unknown
  /\ Resolved("bios_vendor") /\ summary["bios_vendor"] = PyStr(<<"Dell">>)

\* C2: once every component has been scanned, a key whose marker occurs on
\* several lines holds the value of the first of them, whatever that value is
\* (the empty string included); later matches never overwrite it.
C2_FirstMatchWins ==
  (runs = 1 /\ mpc = "uname") =>
    \A k \in ComponentKeys :
      MarkerLines(k) # <<>> => summary[k] = ValueOn(MarkerLines(k)[1], k)

\* C3: after extraction cpu_qty is the number of '*-cpu' lines in the output
\* of the processor command, whatever the other commands printed.
C3_CpuQtyIsProcessorCount ==
  (runs = 1 /\ mpc = "done") =>
    summary["cpu_qty"] = PyInt(CpuCount(cmdout[CommandIndex(processor.command)]))

\* C4: when no command output has a '*-cpu' line, cpu_qty is 0 in the finished
\* table.
C4_CpuQtyDefaultsToZero ==
  (runs = 1 /\ mpc = "done" /\ ~AnyCpuMarker) => summary["cpu_qty"] = PyInt(0)

\* The value of key k a marker line stands for in the finished table (the
\* bios date is stored normalised).
FinalValueOn(line, k) ==
  IF k = "bios_date" /\ strptime(ValueOn(line, k).s).ok
  THEN PyStr(strftime(strptime(ValueOn(line, k).s)))
  ELSE ValueOn(line, k)

\* C5: in the finished table a component key is "unknown" only if no line of
\* its command's output contains its marker; when some line does, the key
\* holds the value of such a line.
C5_UnknownOnlyWithoutMarker ==
  (runs = 1 /\ mpc = "done") =>
    \A k \in ComponentKeys :
      /\ summary[k] = Unknown => MarkerLines(k) = <<>>
      /\ MarkerLines(k) # <<>> =>
           \E i \in 1..Len(MarkerLines(k)) : summary[k] = FinalValueOn(MarkerLines(k)[i], k)

\* A date written month/day/year with a four digit year: the text, its three
\* numbers.
IsMDY(text) ==
  LET f == Split(text, "/")
  IN /\ Len(f) = 3
     /\ \A i \in 1..3 : AllDigits(f[i])
     /\ Len(f[1]) \in {1, 2} /\ Len(f[2]) \in {1, 2} /\ Len(f[3]) = 4
     /\ NumberValue(f[1]) \in 1..12
     /\ NumberValue(f[3]) >= 1
     /\ NumberValue(f[2]) \in 1..DaysInMonth(NumberValue(f[3]), NumberValue(f[1]))

\* text is year/month/day, zero padded, of the date mdy is month/day/year of.
IsYMDOf(text, mdy) ==
  LET f == Split(text, "/")
      g == Split(mdy, "/")
  IN /\ Len(f) = 3
     /\ Len(f[1]) = 4 /\ Len(f[2]) = 2 /\ Len(f[3]) = 2
     /\ \A i \in 1..3 : AllDigits(f[i])
     /\ NumberValue(f[1]) = NumberValue(g[3])
     /\ NumberValue(f[2]) = NumberValue(g[1])
     /\ NumberValue(f[3]) = NumberValue(g[2])

LspciWellFormed ==
  \A i \in 1..Len(cmdout[CommandIndex(lspci_cmd)]) :
    Contains(cmdout[CommandIndex(lspci_cmd)][i], prefetchable)
      => Contains(cmdout[CommandIndex(lspci_cmd)][i], "=")

BiosDatePrinted ==
  /\ MarkerLines("bios_date") # <<>>
  /\ IsMDY(ValueOn(MarkerLines("bios_date")[1], "bios_date").s)

\* C7: when one component's command prints nothing (the BIOS command
\* included) and the other commands print well-formed output, RunInventory
\* still completes and the keys of that component are "unknown".
C7_EmptyOutputIsSoft ==
  \A i \in 1..Len(components) :
    ( /\ runs = 1 /\ mpc \in {"done", "raised"}
      /\ cmdout[i] = <<>>
      /\ LspciWellFormed
      /\ (i # OwnerOf("bios_date") => BiosDatePrinted) )
    => /\ mpc = "done"
       /\ \A k \in ItemKeys(components[i]) : summary[k] = Unknown

\* C8: a second RunInventory on an object whose first run completed also
\* completes, and leaves summary, fieldlist and valuelist as the first run
\* left them.
C8_RerunIsIdempotent ==
  (runs = 2 /\ first.taken /\ mpc \in {"done", "raised"}) =>
    /\ mpc = "done"
    /\ summary = first.summary
    /\ fieldlist = first.fieldlist
    /\ valuelist = first.valuelist

\* ===================================================== claims on the log parser
SomeSignature == \E i \in 1..Len(log) : Matching(log[i]) # {}

\* The first line of the log that holds a signature.
FirstSignatureLine == log[Min({i \in 1..Len(log) : Matching(log[i]) # {}})]

\* C9: the log type is the dialect of the first line that holds a signature,
\* and when that line holds the signatures of several dialects, the one
\* declared first in SUITE_CATEGORY.
C9_FirstLineDeclaredOrder ==
  (lpc \notin {"new", "classify"} /\ SomeSignature) =>
    logtype = FirstIn(DeclaredOrder, Matching(FirstSignatureLine))

\* C10: on a log without any signature ProcessLog ends with the
\* unknown-dialect error (LogError) raised to its caller, and tests, results
\* and the derived attributes stay as the constructor left them.
C10_UnknownDialectRaised ==
  (lpc \in {"done", "raised"} /\ ~SomeSignature) =>
    /\ lpc = "raised" /\ lerr = "LogError"
    /\ tests = <<>> /\ results = EmptyDict /\ attrs = InitAttrs

\* A parser has been called on the log and has returned or raised.
ParserRan == lpc \in {"assign", "done", "raised"} /\ ParseLog # "None"

TestNames == {tests[i] : i \in 1..Len(tests)}

\* C11: once a parser has run on the log, the names in the test list are
\* exactly the keys of the outcome mapping.
C11_TestsMatchOutcomes == ParserRan => TestNames = DOMAIN results

\* C12: once a parser has run on the log, no test name is twice in the test
\* list.
C12_TestsAreDistinct ==
  ParserRan => \A i, j \in 1..Len(tests) : tests[i] = tests[j] => i = j

\* The result lines of an LTP log, in file order.
LTPResultLines == SelectSeq(log, LAMBDA line : IsTestResult(line, "LTP"))

\* Every result line of the log is "<name> <status>".
LTPWellFormed ==
  \A i \in 1..Len(LTPResultLines) : Len(SplitWhitespace(LTPResultLines[i])) = 2

\* C13: the parse of an LTP log whose result lines are "<name> <status>"
\* completes, the test list holds the names in file order, the outcome
\* mapping gives each name its status, and the suite list is ['LTP'].
C13_LTPParse ==
  (ParseLog = "_ParseLTPLog" /\ ParserRan /\ LTPResultLines # <<>> /\ LTPWellFormed) =>
    /\ lerr # "AttributeError"
    /\ tests = [i \in 1..Len(LTPResultLines) |-> SplitWhitespace(LTPResultLines[i])[1]]
    /\ \A i \in 1..Len(LTPResultLines) :
         /\ SplitWhitespace(LTPResultLines[i])[1] \in DOMAIN results
         /\ results[SplitWhitespace(LTPResultLines[i])[1]]
              = SplitWhitespace(LTPResultLines[i])[2]
    /\ suites = << <<"LTP">> >>

Outcomes == { <<"PASS">>, <<"FAIL">>, <<"ERROR">>, <<"TIMEOUT">> }

\* C14: once the parser of a dialect other than UnixBench has run, every
\* value of the outcome mapping is PASS, FAIL, ERROR or TIMEOUT.
C14_OutcomesClosed ==
  (ParserRan /\ logtype # "UnixBench") =>
    \A name \in DOMAIN results : results[name] \in Outcomes

\* The result lines of a PyreRing report, in file order, and of those the
\* ones with the three fields TESTCASE:, path and status.
PRResultLines ==
  SelectSeq(log, LAMBDA line : Has(line, "TESTCASE:") /\ ~IsTestResult(line, "Accept"))

PRWellFormed == SelectSeq(PRResultLines, LAMBDA line : Len(SplitWhitespace(line)) >= 3)

PRName(line) == Last(Split(SplitWhitespace(line)[2], "/"))

\* C15: the parse of a PyreRing report is not ended by a result line of
\* fewer than three fields, and every well-formed result line has its
\* outcome recorded.
C15_MalformedLineSkipped ==
  (ParseLog = "_ParsePRLog" /\ ParserRan) =>
    /\ lerr \notin {"IndexError", "UnboundLocalError"}
    /\ \A i \in 1..Len(PRWellFormed) : PRName(PRWellFormed[i]) \in DOMAIN results

\* Two result lines of the report give one test different outcomes.
Conflicting ==
  \E i, j \in 1..Len(PRWellFormed) :
    /\ PRName(PRWellFormed[i]) = PRName(PRWellFormed[j])
    /\ SplitWhitespace(PRWellFormed[i])[3] # SplitWhitespace(PRWellFormed[j])[3]

\* C16: the parse of a report that gives one test two different outcomes
\* ends with a failure raised to the caller.
C16_ConflictSurfaced ==
  (ParseLog = "_ParsePRLog" /\ ParserRan /\ Conflicting) => lpc = "raised"

\* The lines of the log that give the host, in file order.
HostLines == SelectSeq(log, LAMBDA line : Has(line, tokens.node))

\* The host text of a 'Host Name:' line, and that text up to its first '.'.
HostText(line) == Strip(Split(line, tokens.node)[2])

ShortHost(line) ==
  LET h == HostText(line)
      dots == {i \in 1..Len(h) : h[i] = "."}
  IN IF dots = {} THEN h ELSE SubSeq(h, 1, Min(dots) - 1)

\* C17: the host a parser stores is the host text of the 'Host Name:' line cut
\* at its first '.': a stored host holds no '.', after the parse mach['node']
\* is the short host of the last such line, the session name and the log name
\* are built from it, and _SetMachineName gives the same short host for every
\* such line.
C17_HostIsShort ==
  /\ mach.node # None => \A i \in 1..Len(mach.node.s) : mach.node.s[i] # "."
  /\ (lpc \in {"assign", "done"} /\ HostLines # <<>>) =>
        mach.node = PyStr(ShortHost(Last(HostLines)))
  /\ (lpc = "done" /\ HostLines # <<>>) =>
        /\ attrs.name = PyStr(<<logtype, ".">> \o ShortHost(Last(HostLines)) \o <<".">>
                               \o Fmt(mach.start))
        /\ attrs.logname = PyStr(ShortHost(Last(HostLines)) \o <<".", logtype, ".", "Log">>)
  /\ \A i \in 1..Len(HostLines) :
        SetMachineName(tokens, HostLines[i]).node = ShortHost(HostLines[i])

C17_Witness ==
  /\ lpc = "done"
  /\ \E i \in 1..Len(log) : log[i] = <<"Host Name:", SP, "foo", ".", "example", ".", "com">>
  /\ mach.node = PyStr(<<"foo">>)
  /\ attrs.name = PyStr(<<"Accept", ".", "foo", ".", "1200">>)

\* C18: a step of _AssignValues that returns sets build to distribution, a
\* space and codename, sets name to '<dialect>.<host>.<start time>', and sets
\* description to the machine model when the parser supplied none; a
\* description the parser supplied is left as it is.
C18_Finalization ==
  [][(AssignValuesCall /\ lpc' = "done") =>
       /\ attrs'.build = PyStr(mach.dist.s \o <<SP>> \o mach.code.s)
       /\ attrs'.name = PyStr(<<logtype, ".">> \o Fmt(mach.node) \o <<".">>
                               \o Fmt(mach.start))
       /\ attrs'.model = mach.model
       /\ attrs'.description = IF Truthy(attrs.description) THEN attrs.description
                                ELSE mach.model]_vars

C18_Witness ==
  /\ lpc = "done"
  /\ attrs.build = PyStr(<<"Ubuntu", SP, "hardy">>)
  /\ attrs.name = PyStr(<<"Accept", ".", "foo", ".", "None">>)
  /\ attrs.description = PyStr(<<"PowerEdge">>)

\* _AssignValues has been called: it returned, or it raised (the only
\* TypeError after _ParsePRLog was chosen is the one of _AssignValues).
FinalizationRan ==
  \/ lpc = "done"
  \/ lpc = "raised" /\ ParseLog = "_ParsePRLog" /\ lerr = "TypeError"

\* The dialect, the host or the test list is unset after the parse.
Incomplete == logtype = "None" \/ mach.node = None \/ tests = <<>>

\* C19: finalization of a session whose dialect, host or test list is unset
\* is rejected with IncompleteSession, and name, logname and build stay unset.
C19_IncompleteRejected ==
  (FinalizationRan /\ Incomplete) =>
    /\ lpc = "raised" /\ lerr = "IncompleteSession"
    /\ attrs.name = None /\ attrs.logname = None /\ attrs.build = None

\* The number of tests whose outcome is status.
CountOutcome(status) == Cardinality({name \in DOMAIN results : results[name] = status})

\* C20: a SendSummary call ends with its four counters holding the numbers of
\* tests whose outcome is PASS, FAIL, ERROR and TIMEOUT.
C20_SummaryCounts ==
  send.pc # "idle" =>
    /\ send.pc = "done"
    /\ send.tests_passed = CountOutcome(<<"PASS">>)
    /\ send.tests_failed = CountOutcome(<<"FAIL">>)
    /\ send.tests_error = CountOutcome(<<"ERROR">>)
    /\ send.tests_timeout = CountOutcome(<<"TIMEOUT">>)

\* C21: a SendSummary call on results holding an outcome other than PASS,
\* FAIL, ERROR and TIMEOUT logs a data-quality warning.
C21_OddOutcomeWarned ==
  (send.pc # "idle" /\ \E name \in DOMAIN results : results[name] \notin Outcomes)
    => send.warned

\* C22: the steps of ProcessLog run in the order classify, parse, aggregate.
\* The test list, the outcomes and the suites change only in a parse step,
\* taken with the log type set and by the parser _GetFunction selected for
\* it; the attributes change only in the _AssignValues step, taken after the
\* parser returned without an exception; each step starts from the end of its
\* predecessor.
C22_StepsInOrder ==
  [][/\ (tests' # tests \/ results' # results \/ suites' # suites) =>
          /\ lpc = "parse"
          /\ logtype # "None"
          /\ ParseLog = log_methods[logtype]
     /\ attrs' # attrs =>
          /\ lpc = "assign" /\ lerr = "none"
          /\ logtype # "None" /\ ParseLog = log_methods[logtype]
     /\ lpc' = "parse" => lpc = "classify"
     /\ lpc' = "assign" => (lpc = "parse" /\ lerr' = "none")
     /\ (lpc' = "done" /\ lpc # "done") => lpc = "assign"]_vars

C22_Witness ==
  /\ lpc = "done" /\ calls = 1
  /\ logtype = "Accept" /\ ParseLog = "_ParsePRLog"
  /\ tests = << <<"test_a">> >>
  /\ attrs.build # None

\* What _ParsePRLog gives for the log on a LogParser object just constructed.
FreshParse ==
  ParsePRLogResult(log, <<>>, EmptyDict, <<>>, [key \in DOMAIN tokens |-> None])

\* C23: the tests, outcomes and suites a ProcessLog call leaves for a report
\* are the ones a new LogParser object gives for it, whatever the object
\* processed before.
C23_StatelessAcrossCalls ==
  (lpc \in {"assign", "done"} /\ ParseLog = "_ParsePRLog") =>
    /\ tests = FreshParse.tests
    /\ results = FreshParse.results
    /\ suites = FreshParse.suites

\* C27: after the parse of a System_Stress, Net_Stress or DBench log the test
\* list holds the one test case name of the dialect, no exception has ended
\* the parse, and the outcome of that test is PASS or FAIL.
C27_TxtLogOneTest ==
  (ParserRan /\ logtype \in DOMAIN TxtTestName /\ ParseLog = log_methods[logtype]) =>
    /\ lerr # "AttributeError"
    /\ tests = << <<TxtTestName[logtype]>> >>
    /\ \A name \in DOMAIN results : results[name] \in { <<"PASS">>, <<"FAIL">> }

\* The lines of the report that carry TESTCASE:, in file order.
TestcaseLines == SelectSeq(log, LAMBDA line : Has(line, "TESTCASE:"))

\* C28: after the parse of a report whose TESTCASE: lines all have three
\* fields, the test list holds the name of every TESTCASE: line, in file
\* order, and the outcome of each name is the third field of its last line.
C28_EveryTestcaseLineCounts ==
  ( /\ lpc \in {"assign", "done"} /\ calls = 1 /\ ParseLog = "_ParsePRLog"
    /\ \A i \in 1..Len(TestcaseLines) : Len(SplitWhitespace(TestcaseLines[i])) >= 3 )
  => /\ tests = [i \in 1..Len(TestcaseLines) |-> PRName(TestcaseLines[i])]
     /\ \A i \in 1..Len(TestcaseLines) : PRName(TestcaseLines[i]) \in DOMAIN results


\* ===================================================== claims on the self test
\* C24: once the self test has run, it has counted at least one error whenever
\* the keys of summary and the keys of desc are not the same set, whichever
\* table has the key the other lacks, and no error for the shipped tables.
C24_SelfTestFindsMismatch ==
  tpc = "done" =>
    /\ ksummary # kdesc => retval > 0
    /\ (ksummary = KeySet /\ kdesc = SetOf(DescKeys)) => retval = 0

\* ================================================= claims on the sudoers file
\* C25: when a _SudoConf call for a user has returned success, be it the first
\* call for the user or a later one, the sudoers file holds exactly one
\* NOPASSWD entry of that user.
C25_OneEntryPerUser ==
  sconf.status = "True" =>
    Cardinality({i \in 1..Len(sudoers) : sudoers[i] = AppendString(sconf.user)}) = 1

\* C26: a step that changes the sudoers file leaves in /tmp/sudoers the lines
\* the file had before the step, copied by that call; a _SudoConf call whose
\* copy fails leaves the sudoers file as it was and returns False.
C26_BackupBeforeAppend ==
  [][/\ sudoers' # sudoers => (tmpsudo' = <<sudoers>> /\ sconf'.copy = "ok")
     /\ (nconf' # nconf /\ sconf'.copy = "IOError") =>
          (sudoers' = sudoers /\ sconf'.status = "False")]_vars

\* A _SudoConf call has appended the entry of its user to a file that had
\* lines, and the backup holds the file without the entry.
C26_Witness ==
  /\ sconf.copy = "ok" /\ sconf.status = "True"
  /\ tmpsudo # <<>> /\ tmpsudo[1] # <<>>
  /\ sudoers = Append(tmpsudo[1], AppendString(sconf.user))

\* ====================================================== claims on the testbed
\* C29: after the AutoRun of a Run the host list is the list AutoRun found
\* without the hosts whose run file held their current release, the hosts
\* rebooted are the hosts that stay, and the run file of each of them holds its
\* current release; the job of an 'auto' Run is started only on hosts whose run
\* file did not hold their current release; a second AutoRun empties the list.
C29_AutoRunSkipsTestedHosts ==
  /\ (bpc = "autorun" /\ nauto = 1) =>
       /\ rhosts = SelectSeq(before.rhosts, LAMBDA h : before.lrun[h] # grel[h])
       /\ rebooted = SetOf(rhosts)
       /\ \A h \in SetOf(rhosts) : lrun[h] = grel[h]
  /\ (bpc = "done" /\ op = "auto" /\ nauto = 1) =>
       \A i \in 1..Len(started) : before.lrun[started[i]] # grel[started[i]]
  /\ (bpc = "autorun" /\ nauto >= 2) => rhosts = <<>>

\* C30: when Prepare has returned, the host list is, for an operation Prepare
\* copies packages for, the list Prepare found without the hosts that had a
\* failed copy, in the same order, and for another operation the list Prepare
\* found; the job is never started on a host that had a failed copy.
C30_PrepareDropsFailedHosts ==
  /\ bpc = "prepared" =>
       rhosts = IF op \in PrepareOps
                THEN SelectSeq(prev, LAMBDA h : h \notin failed)
                ELSE prev
  /\ \A i \in 1..Len(started) : started[i] \notin failed

====
